---- MODULE Spec2Model ----
(***************************************************************************)
(* The user-account service of src/app: the users table, the bearer tokens *)
(* of auth.py and the endpoints of main.py.  One action per endpoint, each *)
(* a whole request (dependencies, body validation, handler, commit).       *)
(* GET /users/, which takes no token and writes nothing, has no action.    *)
(*                                                                         *)
(* Time is counted in ticks of 1/TicksPerSecond second, so that the        *)
(* truncation of a datetime to whole seconds in the token's exp claim is   *)
(* part of the model.  Optional values are <<>> (None / NULL) or <<v>>.    *)
(***************************************************************************)
EXTENDS Integers, FiniteSets, Sequences, TLC

VARIABLES
    users,                        \* the users table: id -> row, or NoRow
    next_id,                      \* the serial primary key's next value
    now,                          \* datetime.utcnow(), in ticks
    ACCESS_TOKEN_EXPIRE_MINUTES,  \* settings, read once at start-up
    issued,                       \* every token handed out, with who got it
    last                          \* the last request and its response

vars == <<users, next_id, now, ACCESS_TOKEN_EXPIRE_MINUTES, issued, last>>

-----------------------------------------------------------------------------
(* Bounds of the exploration *)

MaxUsers == 2         \* rows ever inserted
MaxTokens == 1        \* tokens tracked in issued
MaxCoarseSteps == 1   \* clock steps of CoarseStepMinutes under Spec
CoarseStepMinutes == 45  \* one such step: longer than a configured lifetime
FineWindow == 5       \* single ticks watched after a start or a minute's jump
TicksPerSecond == 3   \* resolution of the clock below one second

(* Program constants *)

SecondsPerMinute == 60
DefaultExpireMinutes == 15
ConfiguredExpireMinutes == 30
MinPasswordLength == 6

SECRET_KEY == "supersecretkey"
ALGORITHM == "HS256"

-----------------------------------------------------------------------------
(* Values *)

Null == <<>>
Some(v) == <<v>>
Val(o) == o[1]

Emails == {"a@b.com", "c@d.com"}
Passwords == {"secret1", "secret2"}
ShortPassword == "pw"
Salts == {"salt1"}
UserIds == 1 .. MaxUsers
NoRow == [present |-> FALSE]

timedelta(minutes) == minutes * SecondsPerMinute * TicksPerSecond

\* calendar.timegm(dt.utctimetuple()): whole seconds, the fraction dropped
timegm(t) == t \div TicksPerSecond

-----------------------------------------------------------------------------
(* auth.py: password hashing *)

get_password_hash(password, salt) == [salt |-> salt, digest |-> password]

verify_password(plain_password, hashed_password) ==
    hashed_password.digest = plain_password

-----------------------------------------------------------------------------
(* crud.py: look-ups *)

get_user_by_email(db, email) ==
    IF \E i \in UserIds : db[i].present /\ db[i].email = Some(email)
    THEN Some(CHOOSE i \in UserIds : db[i].present /\ db[i].email = Some(email))
    ELSE Null

get_user(db, user_id) ==
    IF user_id \in UserIds /\ db[user_id].present THEN Some(user_id) ELSE Null

-----------------------------------------------------------------------------
(* auth.py: authenticate_user.  Null stands for the False it returns. *)

\* Mutant: the password is never verified.
authenticate_user_NoVerify(db, email, password) ==
    get_user_by_email(db, email)

authenticate_user(db, email, password) ==
    LET user == get_user_by_email(db, email) IN
    IF user = Null THEN Null
    ELSE IF ~verify_password(password, db[Val(user)].hashed_password) THEN Null
    ELSE user

-----------------------------------------------------------------------------
(* auth.py: tokens.  A token is what jwt.decode looks at: the key it was   *)
(* signed with, its header's alg, whether its payload parses, and the      *)
(* claims sub and exp, each present (<<v>>) or absent (<<>>).              *)

jwt_encode(claims, key, algorithm) ==
    [key |-> key, alg |-> algorithm, wellformed |-> TRUE,
     sub |-> claims.sub, exp |-> Some(timegm(claims.exp))]

JWTError == [error |-> TRUE, sub |-> Null, exp |-> Null]

\* Mutant: the signature is not checked.
jwt_decode_NoSignatureCheck(token, key, algorithm, t) ==
    IF ~token.wellformed THEN JWTError
    ELSE IF token.exp # Null /\ Val(token.exp) < timegm(t) THEN JWTError
    ELSE [error |-> FALSE, sub |-> token.sub, exp |-> token.exp]

jwt_decode(token, key, algorithm, t) ==
    IF ~token.wellformed THEN JWTError
    ELSE IF token.alg # algorithm THEN JWTError
    ELSE IF token.key # key THEN JWTError
    ELSE IF token.exp # Null /\ Val(token.exp) < timegm(t) THEN JWTError
    ELSE [error |-> FALSE, sub |-> token.sub, exp |-> token.exp]

create_access_token(data, expires_delta, t) ==
    LET expire == IF expires_delta # Null /\ Val(expires_delta) # 0
                  THEN t + Val(expires_delta)
                  ELSE t + timedelta(DefaultExpireMinutes)
    IN jwt_encode([sub |-> data.sub, exp |-> expire], SECRET_KEY, ALGORITHM)

(* The outcome of a dependency: the user it resolved to, or the HTTP error *)
Resolved(id) == [status |-> 200, detail |-> "", user |-> Some(id)]
HTTPException(status, detail) == [status |-> status, detail |-> detail, user |-> Null]

credentials_exception == HTTPException(401, "Could not validate credentials")

\* Mutant: a deactivated account's tokens are treated as revoked.
get_current_user_RejectInactive(db, token, t) ==
    LET payload == jwt_decode(token, SECRET_KEY, ALGORITHM, t) IN
    IF payload.error THEN credentials_exception
    ELSE IF payload.sub = Null THEN credentials_exception
    ELSE LET user == get_user_by_email(db, Val(payload.sub)) IN
         IF user = Null \/ db[Val(user)].is_active # Some(TRUE)
         THEN credentials_exception
         ELSE Resolved(Val(user))

get_current_user(db, token, t) ==
    LET payload == jwt_decode(token, SECRET_KEY, ALGORITHM, t) IN
    IF payload.error THEN credentials_exception
    ELSE IF payload.sub = Null THEN credentials_exception
    ELSE LET user == get_user_by_email(db, Val(payload.sub)) IN
         IF user = Null THEN credentials_exception
         ELSE Resolved(Val(user))

\* Mutant: is_active is not looked at.
get_current_active_user_NoCheck(db, token, t) ==
    get_current_user(db, token, t)

get_current_active_user(db, token, t) ==
    LET current_user == get_current_user(db, token, t) IN
    IF current_user.status # 200 THEN current_user
    ELSE IF db[Val(current_user.user)].is_active # Some(TRUE)
         THEN HTTPException(400, "Inactive user")
    ELSE current_user

-----------------------------------------------------------------------------
(* crud.py: writes.  Each returns the table after the commit; an exception *)
(* (a TypeError from the hasher, an IntegrityError from the unique index   *)
(* on email) leaves the table as it was.  A row holds the columns the      *)
(* code reads or a request can set; created_at, which nothing reads, is    *)
(* not kept.                                                               *)

\* Mutant: the column default of is_active is missing, the row gets NULL.
crud_create_user_NoDefault(db, id, user, salt, t) ==
    [db EXCEPT ![id] =
        [present |-> TRUE,
         email |-> Some(user.email),
         hashed_password |-> get_password_hash(user.password, salt),
         is_active |-> Null,
         updated_at |-> Null]]

crud_create_user(db, id, user, salt, t) ==
    [db EXCEPT ![id] =
        [present |-> TRUE,
         email |-> Some(user.email),
         hashed_password |-> get_password_hash(user.password, salt),
         is_active |-> Some(TRUE),
         updated_at |-> Null]]

EmailTaken(db, user_id, email) ==
    /\ email # Null
    /\ \E i \in UserIds : i # user_id /\ db[i].present /\ db[i].email = email

crud_update_user(db, user_id, user_update, salt, t) ==
    IF get_user(db, user_id) = Null THEN [result |-> "none", db |-> db]
    ELSE IF user_update.password = Some(Null)
         THEN [result |-> "error", db |-> db]
    ELSE LET old == db[user_id]
             row == [old EXCEPT
                 !.email = IF user_update.email = Null THEN @
                           ELSE Val(user_update.email),
                 !.hashed_password =
                           IF user_update.password = Null THEN @
                           ELSE get_password_hash(Val(Val(user_update.password)), salt),
                 !.is_active = IF user_update.is_active = Null THEN @
                               ELSE Val(user_update.is_active),
                 !.updated_at = Some(t)]
         IN IF EmailTaken(db, user_id, row.email)
            THEN [result |-> "error", db |-> db]
            ELSE [result |-> "ok", db |-> [db EXCEPT ![user_id] = row]]

crud_delete_user(db, user_id) ==
    IF get_user(db, user_id) = Null THEN [result |-> "none", db |-> db]
    ELSE [result |-> "ok", db |-> [db EXCEPT ![user_id] = NoRow]]

-----------------------------------------------------------------------------
(* schemas.py: UserUpdate.  A field is unset (<<>>), or set (<<x>>) to     *)
(* null (x = <<>>) or to a value (x = <<v>>); exclude_unset keeps the set  *)
(* ones, null included.  A password shorter than min_length is a 422.      *)
(* The payloads tried: email and is_active in every state but a null       *)
(* email, with and without a new password; and the two bad passwords       *)
(* (null, too short).  updated_at, which crud.update_user overwrites, is   *)
(* left out.                                                               *)

Optional(S) == {Null} \cup {Some(v) : v \in S}
Field(S) == {Null} \cup {Some(x) : x \in Optional(S)}

PasswordLength(p) == IF p = ShortPassword THEN 2 ELSE 7

UserUpdate ==
    [email : Field(Emails) \ {Some(Null)},
     password : {Null, Some(Some("secret2"))},
     is_active : Field(BOOLEAN)]
    \cup
    [email : {Null},
     password : {Some(Null), Some(Some(ShortPassword))},
     is_active : {Null, Some(Some(FALSE))}]

ValidUserUpdate(user_data) ==
    \/ user_data.password = Null
    \/ user_data.password = Some(Null)
    \/ PasswordLength(Val(Val(user_data.password))) >= MinPasswordLength

-----------------------------------------------------------------------------
(* Requests.  A bearer token is one the service handed out, or one of a    *)
(* few made elsewhere: signed with another key, with alg "none", not a JWT *)
(* at all, or signed with the service's key but carrying no sub.           *)

ForgedTokens ==
    { [key |-> "otherkey", alg |-> ALGORITHM, wellformed |-> TRUE,
       sub |-> Some("a@b.com"), exp |-> Null],
      [key |-> "", alg |-> "none", wellformed |-> TRUE,
       sub |-> Some("a@b.com"), exp |-> Null],
      [key |-> "", alg |-> "", wellformed |-> FALSE,
       sub |-> Null, exp |-> Null],
      [key |-> SECRET_KEY, alg |-> ALGORITHM, wellformed |-> TRUE,
       sub |-> Null, exp |-> Null] }

NoToken == [key |-> "", alg |-> "", wellformed |-> FALSE, sub |-> Null, exp |-> Null]

BearerTokens == {g.tok : g \in issued} \cup ForgedTokens

NoAuth == HTTPException(0, "")

(* The last request and response; the fields an endpoint does not have     *)
(* keep these values.                                                      *)
NoRequest ==
    [op |-> "none", username |-> "", password |-> "", token |-> NoToken,
     user_id |-> 0, valid |-> TRUE, auth |-> NoAuth, at |-> 0,
     status |-> 0, detail |-> "", access_token |-> Null, token_type |-> ""]

Request(op) == [NoRequest EXCEPT !.op = op, !.at = now]

(* The record of a token handed out: the token, the row it was issued for, *)
(* when, with which lifetime, and the row it last resolved to while that   *)
(* row was active.                                                         *)
Track(tok, uid, delta) ==
    LET g == [tok |-> tok, uid |-> uid, t0 |-> now, ttl |-> delta,
              resolved |-> Null] IN
    IF Cardinality(issued) < MaxTokens THEN issued \cup {g} ELSE issued

(* get_current_active_user let the token through: note whom it resolved to *)
MarkResolved(token, current_user) ==
    { IF g.tok = token /\ current_user.status = 200
      THEN [g EXCEPT !.resolved = current_user.user]
      ELSE g : g \in issued }

-----------------------------------------------------------------------------
(* main.py: the endpoints *)

login_for_access_token(username, password) ==
    LET user == authenticate_user(users, username, password)
        access_token_expires == Some(timedelta(ACCESS_TOKEN_EXPIRE_MINUTES))
        request == [Request("login") EXCEPT !.username = username,
                                     !.password = password]
    IN
    /\ IF user = Null
       THEN /\ last' = [request EXCEPT !.status = 401,
                                       !.detail = "Incorrect email or password"]
            /\ issued' = issued
       ELSE LET access_token == create_access_token(
                    [sub |-> users[Val(user)].email], access_token_expires, now)
            IN /\ last' = [request EXCEPT !.status = 200,
                                          !.user_id = Val(user),
                                          !.access_token = Some(access_token),
                                          !.token_type = "bearer"]
               /\ issued' = Track(access_token, Val(user), access_token_expires)
    /\ UNCHANGED <<users, next_id, now, ACCESS_TOKEN_EXPIRE_MINUTES>>

create_user(user, salt) ==
    LET db_user == get_user_by_email(users, user.email)
        request == [Request("create") EXCEPT !.username = user.email,
                                     !.password = user.password]
    IN
    IF db_user # Null
    THEN /\ last' = [request EXCEPT !.status = 400,
                                    !.detail = "Email already registered"]
         /\ UNCHANGED <<users, next_id, now, ACCESS_TOKEN_EXPIRE_MINUTES, issued>>
    ELSE /\ next_id <= MaxUsers
         /\ users' = crud_create_user(users, next_id, user, salt, now)
         /\ next_id' = next_id + 1
         /\ last' = [request EXCEPT !.status = 200, !.user_id = next_id]
         /\ UNCHANGED <<now, ACCESS_TOKEN_EXPIRE_MINUTES, issued>>

read_users_me(token) ==
    LET current_user == get_current_active_user(users, token, now) IN
    /\ last' = [Request("me") EXCEPT !.token = token,
                                 !.auth = current_user,
                                 !.status = current_user.status,
                                 !.detail = current_user.detail,
                                 !.user_id = IF current_user.user = Null THEN 0
                                             ELSE Val(current_user.user)]
    /\ issued' = MarkResolved(token, current_user)
    /\ UNCHANGED <<users, next_id, now, ACCESS_TOKEN_EXPIRE_MINUTES>>

update_user(token, user_id, user_data, salt) ==
    LET current_user == get_current_active_user(users, token, now)
        request == [Request("update") EXCEPT !.token = token,
                        !.user_id = user_id, !.auth = current_user,
                        !.valid = ValidUserUpdate(user_data)]
        done == crud_update_user(users, user_id, user_data, salt, now)
    IN
    /\ issued' = MarkResolved(token, current_user)
    /\ UNCHANGED <<next_id, now, ACCESS_TOKEN_EXPIRE_MINUTES>>
    /\ IF current_user.status # 200
       THEN /\ last' = [request EXCEPT !.status = current_user.status,
                                       !.detail = current_user.detail]
            /\ users' = users
       ELSE IF ~ValidUserUpdate(user_data)
       THEN /\ last' = [request EXCEPT !.status = 422,
                                       !.detail = "Unprocessable Entity"]
            /\ users' = users
       ELSE IF Val(current_user.user) # user_id
       THEN /\ last' = [request EXCEPT !.status = 403,
                            !.detail = "You do not have permission to update this user"]
            /\ users' = users
       ELSE /\ users' = done.db
            /\ last' = CASE done.result = "ok" -> [request EXCEPT !.status = 200]
                         [] done.result = "none" ->
                              [request EXCEPT !.status = 404, !.detail = "User not found"]
                         [] OTHER ->
                              [request EXCEPT !.status = 500,
                                              !.detail = "Internal Server Error"]

\* Mutant: the ownership check is missing.
delete_user_NoOwnerCheck(token, user_id) ==
    LET current_user == get_current_active_user(users, token, now)
        request == [Request("delete") EXCEPT !.token = token,
                        !.user_id = user_id, !.auth = current_user]
        done == crud_delete_user(users, user_id)
    IN
    /\ issued' = MarkResolved(token, current_user)
    /\ UNCHANGED <<next_id, now, ACCESS_TOKEN_EXPIRE_MINUTES>>
    /\ IF current_user.status # 200
       THEN /\ last' = [request EXCEPT !.status = current_user.status,
                                       !.detail = current_user.detail]
            /\ users' = users
       ELSE /\ users' = done.db
            /\ last' = IF done.result = "ok"
                       THEN [request EXCEPT !.status = 200]
                       ELSE [request EXCEPT !.status = 404, !.detail = "User not found"]

delete_user(token, user_id) ==
    LET current_user == get_current_active_user(users, token, now)
        request == [Request("delete") EXCEPT !.token = token,
                        !.user_id = user_id, !.auth = current_user]
        done == crud_delete_user(users, user_id)
    IN
    /\ issued' = MarkResolved(token, current_user)
    /\ UNCHANGED <<next_id, now, ACCESS_TOKEN_EXPIRE_MINUTES>>
    /\ IF current_user.status # 200
       THEN /\ last' = [request EXCEPT !.status = current_user.status,
                                       !.detail = current_user.detail]
            /\ users' = users
       ELSE IF Val(current_user.user) # user_id
       THEN /\ last' = [request EXCEPT !.status = 403,
                            !.detail = "You do not have permission to delete this user"]
            /\ users' = users
       ELSE /\ users' = done.db
            /\ last' = IF done.result = "ok"
                       THEN [request EXCEPT !.status = 200]
                       ELSE [request EXCEPT !.status = 404, !.detail = "User not found"]

(* auth.py: create_access_token called directly, with any expires_delta *)
issue_token(sub, expires_delta) ==
    LET access_token == create_access_token([sub |-> Some(sub)], expires_delta, now) IN
    /\ last' = [Request("issue") EXCEPT !.username = sub,
                                 !.access_token = Some(access_token)]
    /\ issued' = Track(access_token, 0, expires_delta)
    /\ UNCHANGED <<users, next_id, now, ACCESS_TOKEN_EXPIRE_MINUTES>>

(* The clock *)
CoarseStep == timedelta(CoarseStepMinutes)

TickCoarse ==
    /\ now + CoarseStep <= MaxCoarseSteps * CoarseStep
    /\ now' = now + CoarseStep
    /\ UNCHANGED <<users, next_id, ACCESS_TOKEN_EXPIRE_MINUTES, issued, last>>

TickFine ==
    /\ now % timedelta(1) < FineWindow
    /\ now' = now + 1
    /\ UNCHANGED <<users, next_id, ACCESS_TOKEN_EXPIRE_MINUTES, issued, last>>

TickMinute ==
    /\ now <= FineWindow
    /\ now' = now + timedelta(1)
    /\ UNCHANGED <<users, next_id, ACCESS_TOKEN_EXPIRE_MINUTES, issued, last>>

-----------------------------------------------------------------------------
(* Spec: the whole API, the clock in steps of CoarseStepMinutes.           *)

UserCreate == [email : Emails, password : Passwords]

Init ==
    /\ users = [i \in UserIds |-> NoRow]
    /\ next_id = 1
    /\ now = 0
    /\ ACCESS_TOKEN_EXPIRE_MINUTES = ConfiguredExpireMinutes
    /\ issued = {}
    /\ last = NoRequest

Next ==
    \/ \E username \in Emails, password \in Passwords :
          login_for_access_token(username, password)
    \/ \E user \in UserCreate, salt \in Salts : create_user(user, salt)
    \/ \E token \in BearerTokens : read_users_me(token)
    \/ \E token \in BearerTokens, user_id \in UserIds, user_data \in UserUpdate,
          salt \in Salts : update_user(token, user_id, user_data, salt)
    \/ \E token \in BearerTokens, user_id \in UserIds : delete_user(token, user_id)
    \/ TickCoarse

Spec == Init /\ [][Next]_vars

(* SpecToken: one registered user, tokens issued and presented, the clock  *)
(* in single ticks during the first FineWindow ticks and again one minute  *)
(* later, where a one-minute token expires.                                *)

InitToken ==
    /\ users = crud_create_user([i \in UserIds |-> NoRow], 1,
                  [email |-> "a@b.com", password |-> "secret1"], "salt1", 0)
    /\ next_id = 2
    /\ now = 0
    /\ ACCESS_TOKEN_EXPIRE_MINUTES \in {0, 1}
    /\ issued = {}
    /\ last = NoRequest

NextToken ==
    \/ login_for_access_token("a@b.com", "secret1")
    \/ \E expires_delta \in {Null, Some(0), Some(timedelta(1))} :
          issue_token("a@b.com", expires_delta)
    \/ \E token \in BearerTokens : read_users_me(token)
    \/ TickFine
    \/ TickMinute

SpecToken == InitToken /\ [][NextToken]_vars

-----------------------------------------------------------------------------
(* Properties *)

Expired(tok, t) == tok.exp # Null /\ Val(tok.exp) < timegm(t)
Present(i) == users[i].present
Inactive(i) == Present(i) /\ users[i].is_active = Some(FALSE)
Protected == {"me", "update", "delete"}
Mutating == {"update", "delete"}
NoPermission == {"You do not have permission to update this user",
                 "You do not have permission to delete this user"}

\* C1 (as claimed): every well-formed PUT or DELETE /users/{user_id} made
\* with a token that was issued to a user whose id differs from user_id is
\* answered 403, whether or not the token is valid.
C1_ForbiddenRegardlessOfToken ==
    (/\ last.op \in Mutating
     /\ last.valid
     /\ \E g \in issued : g.tok = last.token /\ g.uid # 0 /\ g.uid # last.user_id)
    => last.status = 403

\* C1 (amended): a PUT or DELETE /users/{user_id} whose token resolves to an
\* active user with another id, and whose body is valid, is answered 403 "no
\* permission"; one whose token does not resolve to an active user is answered
\* with the resolver's own 401 or 400, whatever user_id is.
C1_ForbiddenForResolvedOther ==
    last.op \in Mutating =>
        /\ (last.auth.status = 200 /\ last.valid
                /\ Val(last.auth.user) # last.user_id)
            => (last.status = 403 /\ last.detail \in NoPermission)
        /\ last.auth.status # 200
            => (/\ last.status = last.auth.status
                /\ last.detail = last.auth.detail
                /\ last.status \in {400, 401})

C1_Witness ==
    /\ last.op = "delete"
    /\ last.auth.status = 200
    /\ Val(last.auth.user) # last.user_id
    /\ Present(last.user_id)
    /\ last.status = 403

C3_InactiveAfterDeactivation ==
    \A g \in issued :
        (/\ g.resolved # Null
         /\ Inactive(Val(g.resolved))
         /\ ~Expired(g.tok, now))
        => get_current_active_user(users, g.tok, now)
              = HTTPException(400, "Inactive user")

\* C4: a login for an email with no record and a login with a wrong password
\* for an existing email both fail without exception and get the same
\* response, 401 "Incorrect email or password".
C4_LoginFailuresAlike ==
    (/\ last.op = "login"
     /\ \/ get_user_by_email(users, last.username) = Null
        \/ ~verify_password(last.password,
              users[Val(get_user_by_email(users, last.username))].hashed_password))
    => (/\ authenticate_user(users, last.username, last.password) = Null
        /\ [last EXCEPT !.username = "", !.password = "", !.at = 0]
              = [NoRequest EXCEPT !.op = "login", !.status = 401,
                                  !.detail = "Incorrect email or password"])

C4_Witness ==
    /\ last.op = "login"
    /\ get_user_by_email(users, last.username) # Null
    /\ ~verify_password(last.password,
          users[Val(get_user_by_email(users, last.username))].hashed_password)
    /\ last.status = 401

\* The lifetime a token was asked for: the one passed, or the default
Lifetime(g) == IF g.ttl = Null THEN timedelta(DefaultExpireMinutes) ELSE Val(g.ttl)

Accepted(tok) == ~jwt_decode(tok, SECRET_KEY, ALGORITHM, now).error

\* C5 (as claimed): a token issued at t0 with lifetime T is accepted at every
\* time before t0 + T and rejected at every time after it.
C5_SwitchAtExpiry ==
    \A g \in issued :
        /\ now < g.t0 + Lifetime(g) => Accepted(g.tok)
        /\ now > g.t0 + Lifetime(g) => ~Accepted(g.tok)

\* C6 (as claimed): every unexpired token the service signed is accepted by
\* get_current_user, whatever happened since it was issued.
C6_NeverRejected ==
    \A g \in issued :
        ~Expired(g.tok, now) => get_current_user(users, g.tok, now).status = 200

\* C6 (amended): every unexpired token the service signed passes the token
\* validation (signature, expiry, sub) whatever happened since it was issued,
\* and get_current_user accepts it exactly when some user record has the
\* token's sub as its email.
C6_NoRevocation ==
    \A g \in issued :
        ~Expired(g.tok, now) =>
            /\ Accepted(g.tok)
            /\ g.tok.sub # Null
            /\ get_current_user(users, g.tok, now).status = 200
                  <=> \E i \in UserIds : Present(i) /\ users[i].email = g.tok.sub

C6_Witness ==
    \E g \in issued :
        /\ g.uid # 0
        /\ ~Expired(g.tok, now)
        /\ Inactive(g.uid)
        /\ get_current_user(users, g.tok, now) = Resolved(g.uid)

\* C7 (as claimed): the token's sub is the subject passed and its exp is the
\* time of issue plus the ttl passed, a zero ttl included; the default
\* lifetime is used only when no ttl is passed, and the /token endpoint
\* passes the configured minutes.
C7_ExpIsNowPlusTtl ==
    \A g \in issued :
        /\ g.tok.exp = Some(timegm(g.t0 + Lifetime(g)))
        /\ g.uid # 0 => g.ttl = Some(timedelta(ACCESS_TOKEN_EXPIRE_MINUTES))

\* A row as POST /users/ left it
Unmodified(i) == Present(i) /\ users[i].updated_at = Null

\* C8: for a user created with email e and password p and not modified
\* since, a login with (e, p) returns a bearer token whose sub is e, and
\* that token, until it expires, resolves to exactly that row, with
\* is_active true.
C8_RoundTrip ==
    /\ \A i \in UserIds :
        (/\ last.op = "login"
         /\ Unmodified(i)
         /\ users[i].email = Some(last.username)
         /\ users[i].hashed_password.digest = last.password)
        => (/\ last.status = 200
            /\ last.token_type = "bearer"
            /\ last.user_id = i
            /\ last.access_token # Null
            /\ Val(last.access_token).sub = Some(last.username))
    /\ \A g \in issued :
        (g.uid # 0 /\ Unmodified(g.uid) /\ ~Expired(g.tok, now))
        => (/\ get_current_user(users, g.tok, now) = Resolved(g.uid)
            /\ get_current_active_user(users, g.tok, now) = Resolved(g.uid)
            /\ users[g.uid].is_active = Some(TRUE)
            /\ users[g.uid].email = g.tok.sub)

C8_Witness ==
    \E g \in issued :
        /\ g.uid # 0
        /\ Unmodified(g.uid)
        /\ last.op = "me"
        /\ last.token = g.tok
        /\ last.status = 200
        /\ last.user_id = g.uid

\* C9 (as claimed): a token issued at login for the row with id i resolves,
\* whenever get_current_user accepts it, to the row with id i.
C9_ResolvesToIssuee ==
    \A g \in issued :
        LET current_user == get_current_user(users, g.tok, now) IN
        (g.uid # 0 /\ current_user.status = 200) => current_user.user = Some(g.uid)

\* C10: a row whose is_active is false is never modified or deleted by any
\* request, and a registration with its email is refused.
C10_InactiveIsFrozen ==
    [][/\ \A i \in UserIds : Inactive(i) => users'[i] = users[i]
       /\ (\A i \in UserIds :
              (last.op = "create" /\ Inactive(i)
                  /\ users[i].email = Some(last.username))
              => last.status = 400)']_vars

C10_Witness ==
    \E i \in UserIds :
        /\ Inactive(i)
        /\ last.op \in Mutating
        /\ last.user_id = i
        /\ last.token.sub = users[i].email
        /\ last.status = 400

====
